---- MODULE Spec2Model ----
(***************************************************************************)
(* Seat-allocation strategies of src/components/ExamSeatingAllocator.tsx:  *)
(* allocateSimpleGreedy, allocateGreedyMinChunk, allocateGreedyLookahead   *)
(* and allocateBestFitFFD, driven by allocateSeats.  A behaviour of Spec   *)
(* is one press of the "allocate" button on one input snapshot (sections,  *)
(* roomBlocks, minChunk, algorithm); every step of a strategy emits at     *)
(* most one allocation record.  SpecRerun presses the button again after   *)
(* the inputs were edited, and SpecOddRooms runs on catalogs whose         *)
(* capacities are zero, negative or not a number.                          *)
(*                                                                         *)
(* Room.rows (the per-row layout) is left out: no strategy reads it.       *)
(* Group identities (branch, section) are pairwise distinct in the inputs, *)
(* as the data model's notion of identity requires.                       *)
(***************************************************************************)
EXTENDS Integers, Sequences, FiniteSets, TLC

VARIABLES
    sections,            \* React state: the raw group list
    roomBlocks,          \* React state: the room catalog loaded from the CSV
    minChunk,            \* React state: the threshold
    algorithm,           \* React state: the selected strategy, 1..4
    allocation,          \* React state: the stored result of the last run
    stats,               \* React state: the statistics of the last run
    pc,                  \* position: "idle", "alerted", "run", "room", "fill", "returned", "done"
    result,              \* run-local: the record list being built
    roomUsage,           \* run-local: room id -> seats filled
    allRooms,            \* run-local: the flattened room list of the strategy
    sectionLeft,         \* run-local: the filtered, sorted working copy of the groups
    si,                  \* index of the current section in `for (const section of sectionLeft)`
    ri,                  \* index of the next room in `for (const room of allRooms)`
    remaining,           \* `let remaining` of the current section
    maxBlockIdx,         \* Best-Fit: highest unlocked block (0-based, as in the source)
    seatsLeft,           \* Lookahead: `let seatsLeft` of the current room
    allocationsForRoom   \* Lookahead: records of the current room, not yet in result

vars == <<sections, roomBlocks, minChunk, algorithm, allocation, stats, pc, result,
          roomUsage, allRooms, sectionLeft, si, ri, remaining, maxBlockIdx,
          seatsLeft, allocationsForRoom>>

(***************************************************************************)
(* Bounds of the model.                                                    *)
(***************************************************************************)
MaxStudents == 3
MaxCapacity == 2
MaxMinChunk == 2

(***************************************************************************)
(* JavaScript numbers.  NaN stands for NaN and for `undefined` used as a   *)
(* number (undefined - 0, undefined > n); every comparison with it is      *)
(* false, every arithmetic result on it is NaN, and `x || 0` turns it      *)
(* into 0.                                                                 *)
(***************************************************************************)
NaN == -1000

IsNaN(x) == x = NaN

Sub(a, b) == IF IsNaN(a) \/ IsNaN(b) THEN NaN ELSE a - b

Add(a, b) == IF IsNaN(a) \/ IsNaN(b) THEN NaN ELSE a + b

\* Math.max written for Math.min.
MathMax(a, b) == IF IsNaN(a) \/ IsNaN(b) THEN NaN ELSE IF a > b THEN a ELSE b

MathMin(a, b) == IF IsNaN(a) \/ IsNaN(b) THEN NaN ELSE IF a < b THEN a ELSE b

LT(a, b) == ~IsNaN(a) /\ ~IsNaN(b) /\ a < b

LE(a, b) == ~IsNaN(a) /\ ~IsNaN(b) /\ a <= b

GT(a, b) == ~IsNaN(a) /\ ~IsNaN(b) /\ a > b

GE(a, b) == ~IsNaN(a) /\ ~IsNaN(b) /\ a >= b

StrictEq(a, b) == ~IsNaN(a) /\ ~IsNaN(b) /\ a = b

StrictNe(a, b) == ~StrictEq(a, b)

OrZero(x) == IF IsNaN(x) THEN 0 ELSE x

(***************************************************************************)
(* Rooms and usage.  A room of Best-Fit's fixed ordering that the catalog  *)
(* does not contain is the object { blockName: "" }: its `no` and its      *)
(* `capacity` are undefined.                                               *)
(***************************************************************************)
RoomNo(room) == IF "no" \in DOMAIN room THEN room.no ELSE "undefined"

RoomCapacity(room) == IF "capacity" \in DOMAIN room THEN room.capacity ELSE NaN

RoomUsed(ru, no) == IF no \in DOMAIN ru THEN OrZero(ru[no]) ELSE 0

SetUsage(ru, no, n) == [k \in DOMAIN ru \cup {no} |-> IF k = no THEN n ELSE ru[k]]

AnyRoomHasStudents(rooms, ru) ==
    \E i \in 1..Len(rooms) : RoomUsed(ru, RoomNo(rooms[i])) > 0

MinOf(S) == CHOOSE x \in S : \A y \in S : x <= y

(***************************************************************************)
(* Array.prototype.sort with the comparator (a, b) => b.k - a.k: a stable  *)
(* sort, largest key first.  A comparison with a NaN key yields NaN, which *)
(* sort takes as "equal"; the order is then defined for lists of at most   *)
(* two entries only, and only such lists carry a NaN key in the inputs.    *)
(***************************************************************************)
RECURSIVE InsertDesc(_, _, _)
InsertDesc(order, i, keys) ==
    IF order = <<>> THEN <<i>>
    ELSE IF GT(keys[i], keys[Head(order)]) THEN <<i>> \o order
    ELSE <<Head(order)>> \o InsertDesc(Tail(order), i, keys)

RECURSIVE SortOrder(_, _)
SortOrder(keys, n) ==
    IF n = 0 THEN <<>> ELSE InsertDesc(SortOrder(keys, n - 1), n, keys)

SortDesc(s, keys) ==
    LET order == SortOrder(keys, Len(s)) IN [i \in 1..Len(s) |-> s[order[i]]]

\* The sort of the working copy left out.
InputOrder(s) == s

SortByStudents(s) == SortDesc(s, [i \in 1..Len(s) |-> s[i].students])

SortByCapacity(s) == SortDesc(s, [i \in 1..Len(s) |-> s[i].capacity])

RECURSIVE Flatten(_)
Flatten(ss) == IF ss = <<>> THEN <<>> ELSE Head(ss) \o Flatten(Tail(ss))

(***************************************************************************)
(* Setup shared by the strategies.                                         *)
(***************************************************************************)
WithBlockName(block) ==
    [i \in 1..Len(block.rooms) |->
        [no |-> block.rooms[i].no, capacity |-> block.rooms[i].capacity,
         blockName |-> block.name]]

FlatRooms(blocks) == Flatten([b \in 1..Len(blocks) |-> WithBlockName(blocks[b])])

RoomsByCapacity(blocks) == SortByCapacity(FlatRooms(blocks))

IsValidSection(s) == s.branch # "" /\ s.section # "" /\ s.students > 0

NormalizedSections(secs) == SortByStudents(SelectSeq(secs, IsValidSection))

PlacedRecord(section, room, toAllocate, used) ==
    [branch |-> section.branch, section |-> section.section, roomNo |-> RoomNo(room),
     students |-> toAllocate, startSeat |-> used + 1, endSeat |-> Add(used, toAllocate),
     partial |-> StrictNe(toAllocate, section.students), blockName |-> room.blockName]

\* The error record reports the whole group instead of the remainder.
ErrorRecordWholeGroup(section, n) ==
    [branch |-> section.branch, section |-> section.section, roomNo |-> "NO SPACE",
     students |-> section.students, error |-> TRUE]

ErrorRecord(section, n) ==
    [branch |-> section.branch, section |-> section.section, roomNo |-> "NO SPACE",
     students |-> n, error |-> TRUE]

StudentsAt(secs, i) == IF i <= Len(secs) THEN secs[i].students ELSE 0

(***************************************************************************)
(* 1. Simple Greedy.  One step runs the room scan of the current section   *)
(* up to its next placement, or to its end.                                *)
(***************************************************************************)
\* The `if (!anyRoomHasStudents)` exemption left out: a chunk below minChunk that
\* would finish the group never starts an empty room.
SimpleGreedySkipsSmallChunks(room, ru, rem, rooms) ==
    LET used == RoomUsed(ru, RoomNo(room))
        available == Sub(RoomCapacity(room), used)
        toAllocate == MathMin(available, rem)
    IN  IF LE(available, 0) THEN TRUE
        ELSE IF used = 0 /\ LT(toAllocate, minChunk) /\ StrictEq(rem, toAllocate)
             THEN TRUE
             ELSE LT(toAllocate, minChunk) /\ GT(rem, minChunk)

SimpleGreedySkips(room, ru, rem, rooms) ==
    LET used == RoomUsed(ru, RoomNo(room))
        available == Sub(RoomCapacity(room), used)
        toAllocate == MathMin(available, rem)
    IN  IF LE(available, 0) THEN TRUE
        ELSE IF used = 0 /\ LT(toAllocate, minChunk) /\ StrictEq(rem, toAllocate)
             THEN AnyRoomHasStudents(rooms, ru)
             ELSE LT(toAllocate, minChunk) /\ GT(rem, minChunk)

SimpleGreedyNextSection(st, secs, res) ==
    [result |-> res, roomUsage |-> st.roomUsage, si |-> st.si + 1, ri |-> 1,
     remaining |-> StudentsAt(secs, st.si + 1)]

\* The `if (remaining > 0)` block misplaced inside the room loop: an error record
\* follows every placement that leaves a remainder.
SimpleGreedyStepEagerError(st, rooms, secs) ==
    LET section == secs[st.si]
        open == {j \in st.ri..Len(rooms) :
                    ~SimpleGreedySkips(rooms[j], st.roomUsage, st.remaining, rooms)}
    IN  IF open = {}
        THEN SimpleGreedyNextSection(st, secs,
                 IF GT(st.remaining, 0)
                 THEN Append(st.result, ErrorRecord(section, st.remaining))
                 ELSE st.result)
        ELSE LET j == MinOf(open)
                 room == rooms[j]
                 used == RoomUsed(st.roomUsage, RoomNo(room))
                 toAllocate == MathMin(Sub(RoomCapacity(room), used), st.remaining)
                 rest == Sub(st.remaining, toAllocate)
                 placed == [result |-> Append(st.result,
                                          PlacedRecord(section, room, toAllocate, used)),
                            roomUsage |-> SetUsage(st.roomUsage, RoomNo(room),
                                                   Add(used, toAllocate)),
                            si |-> st.si, ri |-> j + 1, remaining |-> rest]
             IN  IF StrictEq(rest, 0)
                 THEN SimpleGreedyNextSection(placed, secs, placed.result)
                 ELSE [placed EXCEPT !.result = Append(placed.result,
                                                       ErrorRecord(section, rest))]

SimpleGreedyStep(st, rooms, secs) ==
    LET section == secs[st.si]
        open == {j \in st.ri..Len(rooms) :
                    ~SimpleGreedySkips(rooms[j], st.roomUsage, st.remaining, rooms)}
    IN  IF open = {}
        THEN SimpleGreedyNextSection(st, secs,
                 IF GT(st.remaining, 0)
                 THEN Append(st.result, ErrorRecord(section, st.remaining))
                 ELSE st.result)
        ELSE LET j == MinOf(open)
                 room == rooms[j]
                 used == RoomUsed(st.roomUsage, RoomNo(room))
                 toAllocate == MathMin(Sub(RoomCapacity(room), used), st.remaining)
                 placed == [result |-> Append(st.result,
                                          PlacedRecord(section, room, toAllocate, used)),
                            roomUsage |-> SetUsage(st.roomUsage, RoomNo(room),
                                                   Add(used, toAllocate)),
                            si |-> st.si, ri |-> j + 1,
                            remaining |-> Sub(st.remaining, toAllocate)]
             IN  IF StrictEq(placed.remaining, 0)
                 THEN SimpleGreedyNextSection(placed, secs, placed.result)
                 ELSE placed

(***************************************************************************)
(* 2. Greedy with Min Chunk: translated from its own function body.        *)
(***************************************************************************)
\* `remaining >= minChunk` written for `remaining > minChunk`.
GreedyMinChunkSkipsAtThreshold(room, ru, rem, rooms) ==
    LET used == RoomUsed(ru, RoomNo(room))
        available == Sub(RoomCapacity(room), used)
        toAllocate == MathMin(available, rem)
    IN  IF LE(available, 0) THEN TRUE
        ELSE IF used = 0 /\ LT(toAllocate, minChunk) /\ StrictEq(rem, toAllocate)
             THEN AnyRoomHasStudents(rooms, ru)
             ELSE LT(toAllocate, minChunk) /\ GE(rem, minChunk)

GreedyMinChunkSkips(room, ru, rem, rooms) ==
    LET used == RoomUsed(ru, RoomNo(room))
        available == Sub(RoomCapacity(room), used)
        toAllocate == MathMin(available, rem)
    IN  IF LE(available, 0) THEN TRUE
        ELSE IF used = 0 /\ LT(toAllocate, minChunk) /\ StrictEq(rem, toAllocate)
             THEN AnyRoomHasStudents(rooms, ru)
             ELSE LT(toAllocate, minChunk) /\ GT(rem, minChunk)

GreedyMinChunkNextSection(st, secs, res) ==
    [result |-> res, roomUsage |-> st.roomUsage, si |-> st.si + 1, ri |-> 1,
     remaining |-> StudentsAt(secs, st.si + 1)]

GreedyMinChunkStep(st, rooms, secs) ==
    LET section == secs[st.si]
        open == {j \in st.ri..Len(rooms) :
                    ~GreedyMinChunkSkips(rooms[j], st.roomUsage, st.remaining, rooms)}
    IN  IF open = {}
        THEN GreedyMinChunkNextSection(st, secs,
                 IF GT(st.remaining, 0)
                 THEN Append(st.result, ErrorRecord(section, st.remaining))
                 ELSE st.result)
        ELSE LET j == MinOf(open)
                 room == rooms[j]
                 used == RoomUsed(st.roomUsage, RoomNo(room))
                 toAllocate == MathMin(Sub(RoomCapacity(room), used), st.remaining)
                 placed == [result |-> Append(st.result,
                                          PlacedRecord(section, room, toAllocate, used)),
                            roomUsage |-> SetUsage(st.roomUsage, RoomNo(room),
                                                   Add(used, toAllocate)),
                            si |-> st.si, ri |-> j + 1,
                            remaining |-> Sub(st.remaining, toAllocate)]
             IN  IF StrictEq(placed.remaining, 0)
                 THEN GreedyMinChunkNextSection(placed, secs, placed.result)
                 ELSE placed

(***************************************************************************)
(* 4. Best-Fit / First-Fit Decreasing.  orderedRoomBlocks is the source's  *)
(* hard-coded ordering, cut down to two blocks of the same shape (a block  *)
(* of several rooms followed by another block).                            *)
(***************************************************************************)
orderedRoomBlocks == << <<"R1", "R2">>, <<"R3">> >>

OrderedRoom(blocks, roomNo) ==
    LET holders == {b \in 1..Len(blocks) :
                      \E k \in 1..Len(blocks[b].rooms) : blocks[b].rooms[k].no = roomNo}
    IN  IF holders = {} THEN [blockName |-> ""]
        ELSE LET blockObj == blocks[MinOf(holders)]
                 k == MinOf({x \in 1..Len(blockObj.rooms) : blockObj.rooms[x].no = roomNo})
             IN  [no |-> roomNo, capacity |-> blockObj.rooms[k].capacity,
                  blockName |-> blockObj.name]

OrderedRooms(blocks) ==
    Flatten([b \in 1..Len(orderedRoomBlocks) |->
               [k \in 1..Len(orderedRoomBlocks[b]) |->
                  OrderedRoom(blocks, orderedRoomBlocks[b][k])]])

roomToBlockIdx(roomNo) ==
    LET holders == {b \in 1..Len(orderedRoomBlocks) :
                      \E k \in 1..Len(orderedRoomBlocks[b]) :
                          orderedRoomBlocks[b][k] = roomNo}
    IN  IF holders = {} THEN NaN ELSE MinOf(holders) - 1

Locked(room, mbi) == GT(roomToBlockIdx(RoomNo(room)), mbi)

Available(room, ru) == Sub(RoomCapacity(room), RoomUsed(ru, RoomNo(room)))

BestRoomIdx(rooms, ru, rem, mbi) ==
    LET fits == {i \in 1..Len(rooms) :
                   ~Locked(rooms[i], mbi) /\ GE(Available(rooms[i], ru), rem)}
        tightest == {i \in fits :
                       \A j \in fits : Available(rooms[i], ru) <= Available(rooms[j], ru)}
    IN  IF fits = {} THEN 0 ELSE MinOf(tightest)

BestFitBreaks(room, section, ru, rem, rooms) ==
    IF RoomUsed(ru, RoomNo(room)) = 0 /\ LT(rem, minChunk)
       /\ StrictEq(rem, section.students)
    THEN AnyRoomHasStudents(rooms, ru)
    ELSE LT(rem, minChunk) /\ StrictNe(rem, section.students)

\* The `if (available <= 0) continue` test left out: a full room is a candidate.
FirstFitSkipsKeepsFullRooms(room, ru, rem, rooms, mbi) ==
    LET used == RoomUsed(ru, RoomNo(room))
        available == Sub(RoomCapacity(room), used)
        toAllocate == MathMin(available, rem)
    IN  IF Locked(room, mbi) THEN TRUE
        ELSE IF used = 0 /\ LT(toAllocate, minChunk) /\ StrictEq(rem, toAllocate)
             THEN AnyRoomHasStudents(rooms, ru)
             ELSE LT(toAllocate, minChunk) /\ GT(rem, minChunk)

FirstFitSkips(room, ru, rem, rooms, mbi) ==
    LET used == RoomUsed(ru, RoomNo(room))
        available == Sub(RoomCapacity(room), used)
        toAllocate == MathMin(available, rem)
    IN  IF Locked(room, mbi) THEN TRUE
        ELSE IF LE(available, 0) THEN TRUE
        ELSE IF used = 0 /\ LT(toAllocate, minChunk) /\ StrictEq(rem, toAllocate)
             THEN AnyRoomHasStudents(rooms, ru)
             ELSE LT(toAllocate, minChunk) /\ GT(rem, minChunk)

\* The `maxBlockIdx < orderedRoomBlocks.length - 1` test left out.
UnlockPastLast(ru, mbi) ==
    LET currentBlockRooms == orderedRoomBlocks[mbi + 1]
    IN  IF \A k \in 1..Len(currentBlockRooms) : RoomUsed(ru, currentBlockRooms[k]) > 0
        THEN mbi + 1 ELSE mbi

\* The unlock test left out: maxBlockIdx stays where it is.
UnlockNever(ru, mbi) == mbi

Unlock(ru, mbi) ==
    LET currentBlockRooms == orderedRoomBlocks[mbi + 1]
    IN  IF (\A k \in 1..Len(currentBlockRooms) : RoomUsed(ru, currentBlockRooms[k]) > 0)
           /\ mbi < Len(orderedRoomBlocks) - 1
        THEN mbi + 1 ELSE mbi

BestFitRecord(section, room, rem, used) ==
    [branch |-> section.branch, section |-> section.section, roomNo |-> RoomNo(room),
     students |-> rem, startSeat |-> used + 1, endSeat |-> Add(used, rem),
     blockName |-> room.blockName]

BestFitNextSection(st, secs, res) ==
    [result |-> res, roomUsage |-> st.roomUsage, si |-> st.si + 1, ri |-> 1,
     remaining |-> StudentsAt(secs, st.si + 1), maxBlockIdx |-> st.maxBlockIdx]

BestFitGiveUp(st, secs) ==
    BestFitNextSection(st, secs,
        IF GT(st.remaining, 0)
        THEN Append(st.result, ErrorRecord(secs[st.si], st.remaining))
        ELSE st.result)

\* One iteration of `while (remaining > 0)`, and the end of the section when the
\* loop is left.
BestFitFFDStep(st, rooms, secs) ==
    LET section == secs[st.si]
        bestRoomIdx == BestRoomIdx(rooms, st.roomUsage, st.remaining, st.maxBlockIdx)
        open == {j \in 1..Len(rooms) :
                   ~FirstFitSkips(rooms[j], st.roomUsage, st.remaining, rooms,
                                  st.maxBlockIdx)}
    IN  IF bestRoomIdx # 0
        THEN LET room == rooms[bestRoomIdx]
                 used == RoomUsed(st.roomUsage, RoomNo(room))
                 ru == SetUsage(st.roomUsage, RoomNo(room), Add(used, st.remaining))
             IN  IF BestFitBreaks(room, section, st.roomUsage, st.remaining, rooms)
                 THEN BestFitGiveUp(st, secs)
                 ELSE BestFitNextSection(
                          [st EXCEPT !.roomUsage = ru,
                                     !.maxBlockIdx = Unlock(ru, st.maxBlockIdx)],
                          secs,
                          Append(st.result,
                                 BestFitRecord(section, room, st.remaining, used)))
        ELSE IF open = {} THEN BestFitGiveUp(st, secs)
        ELSE LET room == rooms[MinOf(open)]
                 used == RoomUsed(st.roomUsage, RoomNo(room))
                 toAllocate == MathMin(Sub(RoomCapacity(room), used), st.remaining)
                 ru == SetUsage(st.roomUsage, RoomNo(room), Add(used, toAllocate))
                 placed == [result |-> Append(st.result,
                                          PlacedRecord(section, room, toAllocate, used)),
                            roomUsage |-> ru, si |-> st.si, ri |-> 1,
                            remaining |-> Sub(st.remaining, toAllocate),
                            maxBlockIdx |-> Unlock(ru, st.maxBlockIdx)]
             IN  IF GT(placed.remaining, 0) THEN placed
                 ELSE BestFitNextSection(placed, secs, placed.result)

(***************************************************************************)
(* 3. Greedy Lookahead.  The records of a room are collected in            *)
(* allocationsForRoom and reach result and roomUsage when the room is      *)
(* left.                                                                   *)
(***************************************************************************)
RemoveAt(s, i) == SubSeq(s, 1, i - 1) \o SubSeq(s, i + 1, Len(s))

PerfectIdx(pool, seats) ==
    LET hits == {i \in 1..Len(pool) : StrictEq(pool[i].students, seats)}
    IN  IF hits = {} THEN 0 ELSE MinOf(hits)

BestIdx(pool, seats) ==
    LET fits == {i \in 1..Len(pool) : LE(pool[i].students, seats)}
        largest == {i \in fits : \A j \in fits : pool[i].students >= pool[j].students}
    IN  IF fits = {} THEN 0 ELSE MinOf(largest)

WholeRecord(s, room, n, start) ==
    [branch |-> s.branch, section |-> s.section, roomNo |-> RoomNo(room),
     students |-> n, startSeat |-> start, endSeat |-> Add(Sub(start, 1), n),
     blockName |-> room.blockName]

SplitRecord(s, room, chunk, start) ==
    [branch |-> s.branch, section |-> s.section, roomNo |-> RoomNo(room),
     students |-> chunk, startSeat |-> start, endSeat |-> Add(Sub(start, 1), chunk),
     partial |-> TRUE, blockName |-> room.blockName]

LookaheadRoomStart(pool, room) ==
    LET seats == RoomCapacity(room)
        perfectIdx == PerfectIdx(pool, seats)
    IN  IF perfectIdx # 0
        THEN [sectionLeft |-> RemoveAt(pool, perfectIdx), seatsLeft |-> 0,
              allocationsForRoom |-> <<WholeRecord(pool[perfectIdx], room, seats, 1)>>]
        ELSE [sectionLeft |-> pool, seatsLeft |-> seats, allocationsForRoom |-> <<>>]

WholeBreaks(s, room, seats, rooms, ru) ==
    IF StrictEq(Sub(RoomCapacity(room), seats), 0) /\ LT(s.students, minChunk)
       /\ StrictEq(s.students, s.students)
    THEN AnyRoomHasStudents(rooms, ru)
    ELSE LT(s.students, minChunk) /\ StrictNe(s.students, s.students)

SplitBreaks(s, room, seats, rooms, ru) ==
    LET chunk == MathMin(seats, s.students)
    IN  IF GT(Sub(s.students, seats), 0) /\ LT(Sub(s.students, seats), minChunk)
           /\ LT(seats, minChunk)
        THEN TRUE
        ELSE IF StrictEq(Sub(RoomCapacity(room), seats), 0) /\ LT(chunk, minChunk)
                /\ StrictEq(s.students, chunk)
        THEN AnyRoomHasStudents(rooms, ru)
        ELSE LT(chunk, minChunk) /\ GT(s.students, minChunk)

\* One iteration of `while (seatsLeft > 0 && sectionLeft.length > 0)`; left is
\* TRUE when the iteration ends in `break`.
LookaheadIteration(pool, seats, forRoom, room, rooms, ru) ==
    LET bestIdx == BestIdx(pool, seats)
        start == Add(Sub(RoomCapacity(room), seats), 1)
        sorted == SortByStudents(pool)
    IN  IF bestIdx # 0
        THEN LET s == pool[bestIdx]
             IN  IF WholeBreaks(s, room, seats, rooms, ru)
                 THEN [left |-> TRUE, sectionLeft |-> pool, seatsLeft |-> seats,
                       allocationsForRoom |-> forRoom]
                 ELSE [left |-> FALSE, sectionLeft |-> RemoveAt(pool, bestIdx),
                       seatsLeft |-> Sub(seats, s.students),
                       allocationsForRoom |->
                           Append(forRoom, WholeRecord(s, room, s.students, start))]
        ELSE LET s == sorted[1]
                 chunk == MathMin(seats, s.students)
                 rest == [s EXCEPT !.students = Sub(s.students, chunk)]
             IN  IF SplitBreaks(s, room, seats, rooms, ru)
                 THEN [left |-> TRUE, sectionLeft |-> sorted, seatsLeft |-> seats,
                       allocationsForRoom |-> forRoom]
                 ELSE [left |-> FALSE,
                       sectionLeft |-> IF StrictEq(rest.students, 0) THEN Tail(sorted)
                                       ELSE <<rest>> \o Tail(sorted),
                       seatsLeft |-> Sub(seats, chunk),
                       allocationsForRoom |->
                           Append(forRoom, SplitRecord(s, room, chunk, start))]

LeftoverErrors(pool) ==
    LET HasStudents(s) == s.students > 0
        left == SelectSeq(pool, HasStudents)
    IN  [i \in 1..Len(left) |-> ErrorRecord(left[i], left[i].students)]

(***************************************************************************)
(* Inputs.  The catalog lists any subset of the rooms of CatalogLayout,    *)
(* blocks in the loader's order and rooms sorted by id inside a block; R4  *)
(* is a one-seat room the fixed ordering of Best-Fit does not name.  The   *)
(* group list has one entry per branch name: the first is a valid group,   *)
(* the second may have no students, the last may be the blank entry that   *)
(* addSection makes.  Two families of larger inputs are added: the rooms   *)
(* A(50), B(30), C(20) with the groups X=40, Y=60 and threshold 10 (and    *)
(* with X=5 alone, and with X=45, Y=40), and the catalogs of total         *)
(* capacity 50 with one group of 60.                                       *)
(***************************************************************************)
CatalogLayout ==
    << [name |-> "A Block", rooms |-> <<"R1", "R2">>],
       [name |-> "B Block", rooms |-> <<"R3", "R4">>] >>

RoomIds == {"R1", "R2", "R3", "R4"}

BranchNames == <<"X", "Y", "Z">>

Catalog(present, cap) ==
    LET Listed(no) == no \in present
        HasRooms(b) == b.rooms # <<>>
        RoomsOf(ids) == [i \in 1..Len(ids) |-> [no |-> ids[i], capacity |-> cap[ids[i]]]]
        blocks == [b \in 1..Len(CatalogLayout) |->
                     [name |-> CatalogLayout[b].name,
                      rooms |-> RoomsOf(SelectSeq(CatalogLayout[b].rooms, Listed))]]
    IN  SelectSeq(blocks, HasRooms)

SectionSlot(i) ==
    (IF i = Len(BranchNames)
     THEN {[id |-> i, branch |-> "", section |-> "", students |-> MaxStudents]}
     ELSE {})
    \cup {[id |-> i, branch |-> BranchNames[i], section |-> "1", students |-> n] :
            n \in (IF i = 2 THEN 0 ELSE 1)..MaxStudents}

SectionLists ==
    {s \in [1..Len(BranchNames) -> UNION {SectionSlot(i) : i \in 1..Len(BranchNames)}] :
        \A i \in 1..Len(BranchNames) : s[i] \in SectionSlot(i)}

Capacities(no) == IF no = "R4" THEN {1} ELSE 1..MaxCapacity

Catalogs ==
    UNION {{Catalog(present, cap) :
              cap \in {c \in [present -> 1..MaxCapacity] :
                         \A no \in present : c[no] \in Capacities(no)}} :
             present \in SUBSET RoomIds}

NoUsage == [k \in {} |-> 0]

NoStats == [k \in {} |-> 0]

InitRun ==
    /\ allocation = <<>>
    /\ stats = NoStats
    /\ pc = "idle"
    /\ result = <<>>
    /\ roomUsage = NoUsage
    /\ allRooms = <<>>
    /\ sectionLeft = <<>>
    /\ si = 1
    /\ ri = 1
    /\ remaining = 0
    /\ maxBlockIdx = 0
    /\ seatsLeft = 0
    /\ allocationsForRoom = <<>>

InitBounded ==
    /\ sections \in SectionLists
    /\ roomBlocks \in Catalogs
    /\ minChunk \in 1..MaxMinChunk
    /\ algorithm \in 1..4

ScenarioRooms ==
    << [name |-> "A Block",
        rooms |-> << [no |-> "A", capacity |-> 50], [no |-> "B", capacity |-> 30],
                     [no |-> "C", capacity |-> 20] >>] >>

Named(i, branch, n) == [id |-> i, branch |-> branch, section |-> "1", students |-> n]

InitGreedyScenario ==
    /\ sections = << Named(1, "X", 40), Named(2, "Y", 60) >>
    /\ roomBlocks = ScenarioRooms
    /\ minChunk = 10
    /\ algorithm \in 1..4

RECURSIVE TotalCapacity(_, _)
TotalCapacity(cap, ids) ==
    IF ids = {} THEN 0
    ELSE LET no == CHOOSE x \in ids : TRUE
         IN  cap[no] + TotalCapacity(cap, ids \ {no})

OverflowCatalogs ==
    UNION {{Catalog(present, cap) :
              cap \in {c \in [present -> {5, 10, 20, 25, 30, 40, 45, 50}] :
                         TotalCapacity(c, present) = 50}} :
             present \in SUBSET RoomIds}

InitOverflowScenario ==
    /\ sections = << Named(1, "X", 60) >>
    /\ roomBlocks \in OverflowCatalogs
    /\ minChunk \in {1, 10, 30}
    /\ algorithm \in 1..4

\* Catalogs whose 'Total Count' fields parse to NaN, to zero or to a negative
\* number: at most two rooms, out of those of the fixed ordering.
OddCapacities == {NaN, -1, 0} \cup 1..MaxCapacity

OddCatalogs ==
    UNION {{Catalog(present, cap) : cap \in [present -> OddCapacities]} :
             present \in {S \in SUBSET (RoomIds \ {"R4"}) : Cardinality(S) <= 2}}

OddInputs ==
    /\ sections \in {s \in SectionLists : s[2].students = 0 /\ s[3].branch # ""}
    /\ roomBlocks \in OddCatalogs
    /\ minChunk \in 1..MaxMinChunk
    /\ algorithm \in 1..4

\* The rooms A(50), B(30), C(20) with minChunk 10 again: the lone group X=5, and
\* the groups X=45, Y=40.
InitSmallChunkScenario ==
    /\ sections \in { << Named(1, "X", 5) >>,
                      << Named(1, "X", 45), Named(2, "Y", 40) >> }
    /\ roomBlocks = ScenarioRooms
    /\ minChunk = 10
    /\ algorithm \in 1..4

\* A complete catalog with a larger room in the first block of the fixed ordering,
\* R1(1), R2(3), R3(1), two groups of 2 and minChunk 2.
InitLeftoverScenario ==
    /\ sections = << Named(1, "X", 2), Named(2, "Z", 2) >>
    /\ roomBlocks = Catalog({"R1", "R2", "R3"}, [no \in {"R1", "R2", "R3"} |->
                                                    IF no = "R2" THEN 3 ELSE 1])
    /\ minChunk = 2
    /\ algorithm \in 1..4

Init ==
    /\ \/ InitBounded
       \/ InitGreedyScenario
       \/ InitOverflowScenario
       \/ InitSmallChunkScenario
       \/ InitLeftoverScenario
    /\ InitRun

(***************************************************************************)
(* allocateSeats: the dispatch and the prologue of the chosen strategy.    *)
(***************************************************************************)
\* The `if (!roomBlocks.length)` test left out: the strategy runs on no rooms.
StartWithoutRoomCheck ==
    /\ pc = "idle"
    /\ LET secs == NormalizedSections(sections)
       IN  /\ sectionLeft' = secs
           /\ remaining' = IF algorithm = 3 THEN 0 ELSE StudentsAt(secs, 1)
           /\ pc' = IF algorithm = 3 THEN "room"
                    ELSE IF secs = <<>> THEN "returned" ELSE "run"
    /\ allRooms' = IF algorithm = 4 THEN OrderedRooms(roomBlocks)
                   ELSE RoomsByCapacity(roomBlocks)
    /\ result' = <<>>
    /\ roomUsage' = NoUsage
    /\ si' = 1
    /\ ri' = 1
    /\ maxBlockIdx' = 0
    /\ UNCHANGED <<sections, roomBlocks, minChunk, algorithm, allocation, stats,
                   seatsLeft, allocationsForRoom>>

\* `let maxBlockIdx = 0` kept outside the function: the cursor of the last run stays.
StartKeepsBlockIdx ==
    /\ pc = "idle"
    /\ Len(roomBlocks) > 0
    /\ LET secs == NormalizedSections(sections)
       IN  /\ sectionLeft' = secs
           /\ remaining' = IF algorithm = 3 THEN 0 ELSE StudentsAt(secs, 1)
           /\ pc' = IF algorithm = 3 THEN "room"
                    ELSE IF secs = <<>> THEN "returned" ELSE "run"
    /\ allRooms' = IF algorithm = 4 THEN OrderedRooms(roomBlocks)
                   ELSE RoomsByCapacity(roomBlocks)
    /\ result' = <<>>
    /\ roomUsage' = NoUsage
    /\ si' = 1
    /\ ri' = 1
    /\ maxBlockIdx' = maxBlockIdx
    /\ UNCHANGED <<sections, roomBlocks, minChunk, algorithm, allocation, stats,
                   seatsLeft, allocationsForRoom>>

Start ==
    /\ pc = "idle"
    /\ Len(roomBlocks) > 0
    /\ LET secs == NormalizedSections(sections)
       IN  /\ sectionLeft' = secs
           /\ remaining' = IF algorithm = 3 THEN 0 ELSE StudentsAt(secs, 1)
           /\ pc' = IF algorithm = 3 THEN "room"
                    ELSE IF secs = <<>> THEN "returned" ELSE "run"
    /\ allRooms' = IF algorithm = 4 THEN OrderedRooms(roomBlocks)
                   ELSE RoomsByCapacity(roomBlocks)
    /\ result' = <<>>
    /\ roomUsage' = NoUsage
    /\ si' = 1
    /\ ri' = 1
    /\ maxBlockIdx' = 0
    /\ UNCHANGED <<sections, roomBlocks, minChunk, algorithm, allocation, stats,
                   seatsLeft, allocationsForRoom>>

RunState == [result |-> result, roomUsage |-> roomUsage, si |-> si, ri |-> ri,
             remaining |-> remaining]

Adopt(st) ==
    /\ result' = st.result
    /\ roomUsage' = st.roomUsage
    /\ si' = st.si
    /\ ri' = st.ri
    /\ remaining' = st.remaining
    /\ pc' = IF st.si > Len(sectionLeft) THEN "returned" ELSE "run"

SimpleGreedy ==
    /\ pc = "run"
    /\ algorithm = 1
    /\ Adopt(SimpleGreedyStep(RunState, allRooms, sectionLeft))
    /\ UNCHANGED <<sections, roomBlocks, minChunk, algorithm, allocation, stats, allRooms,
                   sectionLeft, maxBlockIdx, seatsLeft, allocationsForRoom>>

GreedyMinChunk ==
    /\ pc = "run"
    /\ algorithm = 2
    /\ Adopt(GreedyMinChunkStep(RunState, allRooms, sectionLeft))
    /\ UNCHANGED <<sections, roomBlocks, minChunk, algorithm, allocation, stats, allRooms,
                   sectionLeft, maxBlockIdx, seatsLeft, allocationsForRoom>>

BestFitFFD ==
    /\ pc = "run"
    /\ algorithm = 4
    /\ LET st == BestFitFFDStep(
                    [result |-> result, roomUsage |-> roomUsage, si |-> si, ri |-> ri,
                     remaining |-> remaining, maxBlockIdx |-> maxBlockIdx],
                    allRooms, sectionLeft)
       IN  /\ Adopt(st)
           /\ maxBlockIdx' = st.maxBlockIdx
    /\ UNCHANGED <<sections, roomBlocks, minChunk, algorithm, allocation, stats, allRooms,
                   sectionLeft, seatsLeft, allocationsForRoom>>

LookaheadEnterRoom ==
    /\ pc = "room"
    /\ algorithm = 3
    /\ ri <= Len(allRooms)
    /\ LET st == LookaheadRoomStart(sectionLeft, allRooms[ri])
       IN  /\ sectionLeft' = st.sectionLeft
           /\ seatsLeft' = st.seatsLeft
           /\ allocationsForRoom' = st.allocationsForRoom
    /\ pc' = "fill"
    /\ UNCHANGED <<sections, roomBlocks, minChunk, algorithm, allocation, stats, result,
                   roomUsage, allRooms, si, ri, remaining, maxBlockIdx>>

LoopRuns == GT(seatsLeft, 0) /\ Len(sectionLeft) > 0

Iteration ==
    LookaheadIteration(sectionLeft, seatsLeft, allocationsForRoom, allRooms[ri],
                       allRooms, roomUsage)

\* The working copy made without `.map(s => ({ ...s }))`: `s.students -= chunk`
\* then writes into the caller's section objects.
LookaheadFillOnCallerObjects ==
    /\ pc = "fill"
    /\ algorithm = 3
    /\ LoopRuns
    /\ ~Iteration.left
    /\ sectionLeft' = Iteration.sectionLeft
    /\ seatsLeft' = Iteration.seatsLeft
    /\ allocationsForRoom' = Iteration.allocationsForRoom
    /\ sections' =
          IF BestIdx(sectionLeft, seatsLeft) # 0 THEN sections
          ELSE LET s == SortByStudents(sectionLeft)[1]
                   chunk == MathMin(seatsLeft, s.students)
               IN  [i \in 1..Len(sections) |->
                      IF sections[i].id = s.id
                      THEN [sections[i] EXCEPT !.students = Sub(s.students, chunk)]
                      ELSE sections[i]]
    /\ UNCHANGED <<roomBlocks, minChunk, algorithm, allocation, stats, pc, result,
                   roomUsage, allRooms, si, ri, remaining, maxBlockIdx>>

LookaheadFill ==
    /\ pc = "fill"
    /\ algorithm = 3
    /\ LoopRuns
    /\ ~Iteration.left
    /\ sectionLeft' = Iteration.sectionLeft
    /\ seatsLeft' = Iteration.seatsLeft
    /\ allocationsForRoom' = Iteration.allocationsForRoom
    /\ UNCHANGED <<sections, roomBlocks, minChunk, algorithm, allocation, stats, pc, result,
                   roomUsage, allRooms, si, ri, remaining, maxBlockIdx>>

LookaheadLeaveRoom ==
    /\ pc = "fill"
    /\ algorithm = 3
    /\ IF LoopRuns THEN Iteration.left ELSE TRUE
    /\ sectionLeft' = IF LoopRuns THEN Iteration.sectionLeft ELSE sectionLeft
    /\ result' = result \o allocationsForRoom
    /\ roomUsage' = IF Len(allocationsForRoom) > 0
                    THEN SetUsage(roomUsage, RoomNo(allRooms[ri]),
                                  Sub(RoomCapacity(allRooms[ri]), seatsLeft))
                    ELSE roomUsage
    /\ allocationsForRoom' = <<>>
    /\ seatsLeft' = 0
    /\ ri' = ri + 1
    /\ pc' = "room"
    /\ UNCHANGED <<sections, roomBlocks, minChunk, algorithm, allocation, stats, allRooms,
                   si, remaining, maxBlockIdx>>

LookaheadErrors ==
    /\ pc = "room"
    /\ algorithm = 3
    /\ ri > Len(allRooms)
    /\ result' = result \o LeftoverErrors(sectionLeft)
    /\ pc' = "returned"
    /\ UNCHANGED <<sections, roomBlocks, minChunk, algorithm, allocation, stats, roomUsage,
                   allRooms, sectionLeft, si, ri, remaining, maxBlockIdx, seatsLeft,
                   allocationsForRoom>>

\* `if (!roomBlocks.length) { alert(...); return; }`
EmptyCatalogAlert ==
    /\ pc = "idle"
    /\ Len(roomBlocks) = 0
    /\ pc' = "alerted"
    /\ UNCHANGED <<sections, roomBlocks, minChunk, algorithm, allocation, stats, result,
                   roomUsage, allRooms, sectionLeft, si, ri, remaining, maxBlockIdx,
                   seatsLeft, allocationsForRoom>>

\* The statistics allocateSeats stores with the result.  `efficiency`, a display
\* string made of allocatedStudents and totalCapacity, is left out.
CalculateStats(secs, blocks, res, ru) ==
    LET NotError(r) == "error" \notin DOMAIN r
        placed == SelectSeq(res, NotError)
        rooms == FlatRooms(blocks)
        RECURSIVE Total(_)
        Total(s) == IF s = <<>> THEN 0 ELSE Add(Total(SubSeq(s, 1, Len(s) - 1)), s[Len(s)])
        found == {i \in 1..Len(rooms) : rooms[i].no \in DOMAIN ru}
        RECURSIVE Capacity(_)
        Capacity(S) == IF S = {} THEN 0
                       ELSE LET i == MinOf(S) IN Add(rooms[i].capacity, Capacity(S \ {i}))
        allocatedStudents == Total([k \in 1..Len(placed) |-> placed[k].students])
        totalCapacity == Capacity(found)
    IN  [totalStudents |-> Total([k \in 1..Len(secs) |-> OrZero(secs[k].students)]),
         allocatedStudents |-> allocatedStudents,
         roomsUsed |-> Cardinality({placed[k].roomNo : k \in 1..Len(placed)}),
         blocksUsed |-> Cardinality({placed[k].blockName : k \in 1..Len(placed)} \ {""}),
         totalCapacity |-> totalCapacity,
         wastedSeats |-> Sub(totalCapacity, allocatedStudents)]

SetAllocation ==
    /\ pc = "returned"
    /\ allocation' = result
    /\ stats' = CalculateStats(sections, roomBlocks, result, roomUsage)
    /\ pc' = "done"
    /\ UNCHANGED <<sections, roomBlocks, minChunk, algorithm, result, roomUsage,
                   allRooms, sectionLeft, si, ri, remaining, maxBlockIdx, seatsLeft,
                   allocationsForRoom>>

Next ==
    \/ EmptyCatalogAlert
    \/ Start
    \/ SimpleGreedy
    \/ GreedyMinChunk
    \/ LookaheadEnterRoom
    \/ LookaheadFill
    \/ LookaheadLeaveRoom
    \/ LookaheadErrors
    \/ BestFitFFD
    \/ SetAllocation

Spec == Init /\ [][Next]_vars

(***************************************************************************)
(* Several runs in a row.  Between two presses of the button the user may  *)
(* pick another strategy (setAlgorithm), another threshold (setMinChunk)   *)
(* and other group sizes (updateSection), or leave them as they are.       *)
(***************************************************************************)
TwoGroups ==
    {s \in SectionLists : s[2].students = 0 /\ s[3].branch # "" /\ s[3].students = 1}

EditInputs ==
    /\ pc = "done"
    /\ pc' = "idle"
    /\ algorithm' \in 1..4
    /\ minChunk' \in 1..MaxMinChunk
    /\ sections' \in TwoGroups
    /\ UNCHANGED <<roomBlocks, allocation, stats, result, roomUsage, allRooms,
                   sectionLeft, si, ri, remaining, maxBlockIdx, seatsLeft,
                   allocationsForRoom>>

\* One-seat rooms in the first block of the fixed ordering, any capacity in the next.
RerunCatalogs ==
    UNION {{Catalog(present, cap) :
              cap \in {c \in [present -> 1..MaxCapacity] :
                         \A no \in present : no \in {"R1", "R2"} => c[no] = 1}} :
             present \in SUBSET (RoomIds \ {"R4"})}

InitRerun ==
    /\ sections \in TwoGroups
    /\ roomBlocks \in RerunCatalogs
    /\ minChunk \in 1..MaxMinChunk
    /\ algorithm \in 1..4
    /\ InitRun

NextRerun ==
    \/ Next
    \/ EditInputs

SpecRerun == InitRerun /\ [][NextRerun]_vars

\* The runs on catalogs with odd capacities.
InitOddRooms ==
    /\ OddInputs
    /\ InitRun

SpecOddRooms == InitOddRooms /\ [][Next]_vars

(***************************************************************************)
(* Vocabulary of the properties.                                           *)
(***************************************************************************)
Records == result \o allocationsForRoom

IsError(r) == "error" \in DOMAIN r

Finished == pc \in {"returned", "done"}

Placements(recs) == LET Seated(r) == ~IsError(r) IN SelectSeq(recs, Seated)

Errors(recs) == SelectSeq(recs, IsError)

OfGroup(recs, g) ==
    LET Same(r) == r.branch = g.branch /\ r.section = g.section
    IN  SelectSeq(recs, Same)

InRoom(recs, no) == LET Here(r) == r.roomNo = no IN SelectSeq(Placements(recs), Here)

RECURSIVE SumStudents(_)
SumStudents(recs) ==
    IF recs = <<>> THEN 0 ELSE Add(Head(recs).students, SumStudents(Tail(recs)))

ValidGroups == {sections[i] : i \in {k \in 1..Len(sections) : IsValidSection(sections[k])}}

CatalogRooms == {FlatRooms(roomBlocks)[i] : i \in 1..Len(FlatRooms(roomBlocks))}

CatalogComplete ==
    \A b \in 1..Len(orderedRoomBlocks) : \A k \in 1..Len(orderedRoomBlocks[b]) :
        \E room \in CatalogRooms : room.no = orderedRoomBlocks[b][k]

(***************************************************************************)
(* C1 (conservation): when a strategy has returned, the students of all    *)
(* records of a valid input group, error and non-error together, add up   *)
(* to the group's input size.                                              *)
(***************************************************************************)
Conservation ==
    Finished =>
        \A g \in ValidGroups : StrictEq(SumStudents(OfGroup(result, g)), g.students)

(***************************************************************************)
(* C2 (capacity safety): at every point of a run, the students of the      *)
(* non-error records emitted so far for a room of the catalog add up to    *)
(* at most the room's capacity.                                            *)
(***************************************************************************)
CapacitySafety ==
    \A room \in CatalogRooms :
        LE(SumStudents(InRoom(Records, room.no)), room.capacity)

RoomFilledByTwoGroups ==
    /\ pc = "done"
    /\ \E room \in CatalogRooms :
          /\ SumStudents(InRoom(result, room.no)) = room.capacity
          /\ Len(InRoom(result, room.no)) >= 2
    /\ Errors(result) # <<>>

(***************************************************************************)
(* C3 (seat-range contiguity): the non-error records of one room, in the   *)
(* order of the result, start at seat 1, each next one starts right after  *)
(* the previous one ends, and each spans exactly its students.             *)
(***************************************************************************)
Contiguous(recs) ==
    \A k \in 1..Len(recs) :
        /\ StrictEq(recs[k].startSeat, IF k = 1 THEN 1 ELSE Add(recs[k - 1].endSeat, 1))
        /\ StrictEq(Add(Sub(recs[k].endSeat, recs[k].startSeat), 1), recs[k].students)

\* C3: in every room the non-error records span exactly their students and follow one another from seat 1.
SeatRangeContiguity ==
    \A no \in {Placements(result)[k].roomNo : k \in 1..Len(Placements(result))} :
        Contiguous(InRoom(result, no))

(***************************************************************************)
(* C4 (min-chunk respect): a non-error record with fewer students than     *)
(* minChunk is made while no room has any seat filled (no earlier record   *)
(* seats anyone) or lands in a room that already had seats filled (its     *)
(* range does not start at seat 1).                                        *)
(***************************************************************************)
Seated(recs) ==
    LET TakesSeats(r) == ~IsError(r) /\ GT(r.students, 0) IN SelectSeq(recs, TakesSeats)

\* C4: a split chunk below minChunk never starts an empty room while another room is occupied.
MinChunkRespect ==
    \A k \in 1..Len(result) :
        (~IsError(result[k]) /\ LT(result[k].students, minChunk)) =>
            \/ Seated(SubSeq(result, 1, k - 1)) = <<>>
            \/ GT(result[k].startSeat, 1)

(***************************************************************************)
(* C5: a group has at most one error record, and no record of the group    *)
(* follows it.                                                             *)
(***************************************************************************)
ErrorLast(recs) ==
    \A k \in 1..Len(recs) : IsError(recs[k]) => k = Len(recs)

OriginalSize(r) ==
    (CHOOSE g \in ValidGroups : g.branch = r.branch /\ g.section = r.section).students

IsPartial(r) == "partial" \in DOMAIN r /\ r.partial

\* C6: partial is set exactly on the records that seat fewer students than the group's original size.
PartialFlag ==
    \A k \in 1..Len(result) :
        (~IsError(result[k]) /\ ~IsNaN(result[k].students)) =>
            (IsPartial(result[k]) <=> LT(result[k].students, OriginalSize(result[k])))

(***************************************************************************)
(* C7 (scenario A(50), B(30), C(20); X=40, Y=60; minChunk 10; Simple       *)
(* Greedy).  As stated: X 40 in A (1-40), Y 10 in A (41-50), Y 30 in B     *)
(* (1-30), Y 20 in C (1-20).  As the code runs it, the larger group Y is   *)
(* seated first: Y 50 in A (1-50), Y 10 in B (1-10), X 20 in B (11-30),    *)
(* X 20 in C (1-20); no error record, every used room full.                *)
(***************************************************************************)
Brief(r) == <<r.branch, r.roomNo, r.students, r.startSeat, r.endSeat>>

GreedyScenarioDone ==
    /\ pc = "done"
    /\ algorithm = 1
    /\ roomBlocks = ScenarioRooms
    /\ minChunk = 10
    /\ sections = << Named(1, "X", 40), Named(2, "Y", 60) >>

UsedRoomsFull ==
    \A room \in CatalogRooms :
        RoomUsed(roomUsage, room.no) \in {0, room.capacity}

\* C7 as stated: Simple Greedy yields X 40 in A, Y 10 in A, Y 30 in B, Y 20 in C, no error, rooms full.
GreedyScenarioAsStated ==
    GreedyScenarioDone =>
        /\ Errors(result) = <<>>
        /\ [k \in 1..Len(result) |-> Brief(result[k])]
             = << <<"X", "A", 40, 1, 40>>, <<"Y", "A", 10, 41, 50>>,
                  <<"Y", "B", 30, 1, 30>>, <<"Y", "C", 20, 1, 20>> >>
        /\ UsedRoomsFull

\* C7 as the code does it: Y is seated first: Y 50 in A, Y 10 in B, X 20 in B, X 20 in C, no error, rooms full.
GreedyScenarioLargestFirst ==
    GreedyScenarioDone =>
        /\ Errors(result) = <<>>
        /\ [k \in 1..Len(result) |-> Brief(result[k])]
             = << <<"Y", "A", 50, 1, 50>>, <<"Y", "B", 10, 1, 10>>,
                  <<"X", "B", 20, 11, 30>>, <<"X", "C", 20, 1, 20>> >>
        /\ UsedRoomsFull

GreedyScenarioReached == GreedyScenarioDone /\ Len(result) = 4

(***************************************************************************)
(* C8 (overflow scenario: total capacity 50, one group of 60).  As stated: *)
(* exactly one error record, of 10 students, for every minChunk and        *)
(* strategy.  As the code runs it: at most one error record, of at least   *)
(* 10 students; strategies 1-3 emit exactly one, and with minChunk = 1 it  *)
(* has exactly 10 students.                                                *)
(***************************************************************************)
OverflowScenarioDone ==
    /\ Finished
    /\ sections = << Named(1, "X", 60) >>

BlockUnlockMonotone ==
    [][/\ Start => maxBlockIdx' = 0
       /\ pc = "run" =>
            /\ maxBlockIdx' >= maxBlockIdx
            /\ maxBlockIdx' <= maxBlockIdx + 1
            /\ maxBlockIdx' <= Len(orderedRoomBlocks) - 1]_vars

SecondBlockUnlocked ==
    /\ algorithm = 4
    /\ maxBlockIdx = 1
    /\ InRoom(result, orderedRoomBlocks[2][1]) # <<>>
    /\ Len(sectionLeft) >= 2

(***************************************************************************)
(* C10: Greedy with Min-Chunk returns the record list and the roomUsage    *)
(* map that Simple Greedy returns on the same sections, catalog and        *)
(* minChunk.                                                               *)
(***************************************************************************)
RECURSIVE SimpleGreedyLoop(_, _, _)
SimpleGreedyLoop(st, rooms, secs) ==
    IF st.si > Len(secs) THEN st
    ELSE SimpleGreedyLoop(SimpleGreedyStep(st, rooms, secs), rooms, secs)

allocateSimpleGreedy ==
    LET secs == NormalizedSections(sections)
    IN  SimpleGreedyLoop([result |-> <<>>, roomUsage |-> NoUsage, si |-> 1, ri |-> 1,
                          remaining |-> StudentsAt(secs, 1)],
                         RoomsByCapacity(roomBlocks), secs)

InputsNeverMutated ==
    [][sections' = sections /\ roomBlocks' = roomBlocks]_vars

LookaheadSplitDone ==
    /\ pc = "done"
    /\ algorithm = 3
    /\ \E k \in 1..Len(result) : IsPartial(result[k])
    /\ Errors(result) # <<>>
    /\ NormalizedSections(sections) # SelectSeq(sections, IsValidSection)
    /\ RoomsByCapacity(roomBlocks) # FlatRooms(roomBlocks)

(***************************************************************************)
(* C12 (empty catalog rejection): while roomBlocks is empty, pressing      *)
(* allocate runs no strategy (no run-local value is ever built) and the    *)
(* stored allocation and stats stay what they were, the initial ones, for  *)
(* every algorithm and every group list.                                   *)
(***************************************************************************)
EmptyCatalogRejected ==
    Len(roomBlocks) = 0 =>
        /\ pc \in {"idle", "alerted"}
        /\ allocation = <<>>
        /\ stats = NoStats
        /\ result = <<>>
        /\ roomUsage = NoUsage
        /\ allRooms = <<>>
        /\ sectionLeft = <<>>

AlertedWithGroups ==
    /\ pc = "alerted"
    /\ Len(roomBlocks) = 0
    /\ Cardinality(ValidGroups) >= 2

(***************************************************************************)
(* C13 (ineligible rooms): a room whose capacity is zero, negative or not  *)
(* a number, and the room Best-Fit makes up for an id of its fixed         *)
(* ordering that the catalog lacks (capacity undefined, roomNo undefined), *)
(* never gets a record or a roomUsage entry, and every record the run      *)
(* emits carries a proper students count.                                  *)
(***************************************************************************)
IneligibleRoomNos ==
    {room.no : room \in {r \in CatalogRooms : ~GT(r.capacity, 0)}}
    \cup (IF algorithm = 4 /\ ~CatalogComplete THEN {"undefined"} ELSE {})

\* C13: ineligible rooms get no record and no usage entry, and no record has a NaN count.
IneligibleRoomsUnused ==
    /\ \A no \in IneligibleRoomNos :
          /\ no \notin DOMAIN roomUsage
          /\ InRoom(Records, no) = <<>>
    /\ \A k \in 1..Len(Records) : ~IsNaN(Records[k].students)

(***************************************************************************)
(* The strategies as functions of the inputs: each loop run from its       *)
(* fresh prologue to its return.                                           *)
(***************************************************************************)
RECURSIVE GreedyMinChunkLoop(_, _, _)
GreedyMinChunkLoop(st, rooms, secs) ==
    IF st.si > Len(secs) THEN st
    ELSE GreedyMinChunkLoop(GreedyMinChunkStep(st, rooms, secs), rooms, secs)

allocateGreedyMinChunk ==
    LET secs == NormalizedSections(sections)
    IN  GreedyMinChunkLoop([result |-> <<>>, roomUsage |-> NoUsage, si |-> 1, ri |-> 1,
                            remaining |-> StudentsAt(secs, 1)],
                           RoomsByCapacity(roomBlocks), secs)

RECURSIVE BestFitFFDLoop(_, _, _)
BestFitFFDLoop(st, rooms, secs) ==
    IF st.si > Len(secs) THEN st
    ELSE BestFitFFDLoop(BestFitFFDStep(st, rooms, secs), rooms, secs)

allocateBestFitFFD ==
    LET secs == NormalizedSections(sections)
    IN  BestFitFFDLoop([result |-> <<>>, roomUsage |-> NoUsage, si |-> 1, ri |-> 1,
                        remaining |-> StudentsAt(secs, 1), maxBlockIdx |-> 0],
                       OrderedRooms(roomBlocks), secs)

RECURSIVE LookaheadWhile(_, _, _, _, _, _)
LookaheadWhile(pool, seats, forRoom, room, rooms, ru) ==
    IF ~(GT(seats, 0) /\ Len(pool) > 0)
    THEN [sectionLeft |-> pool, seatsLeft |-> seats, allocationsForRoom |-> forRoom]
    ELSE LET it == LookaheadIteration(pool, seats, forRoom, room, rooms, ru)
         IN  IF it.left
             THEN [sectionLeft |-> it.sectionLeft, seatsLeft |-> seats,
                   allocationsForRoom |-> forRoom]
             ELSE LookaheadWhile(it.sectionLeft, it.seatsLeft, it.allocationsForRoom,
                                 room, rooms, ru)

RECURSIVE LookaheadRooms(_, _, _, _, _)
LookaheadRooms(i, rooms, pool, res, ru) ==
    IF i > Len(rooms)
    THEN [result |-> res \o LeftoverErrors(pool), roomUsage |-> ru]
    ELSE LET room == rooms[i]
             st == LookaheadRoomStart(pool, room)
             w == LookaheadWhile(st.sectionLeft, st.seatsLeft, st.allocationsForRoom,
                                 room, rooms, ru)
         IN  LookaheadRooms(i + 1, rooms, w.sectionLeft, res \o w.allocationsForRoom,
                            IF Len(w.allocationsForRoom) > 0
                            THEN SetUsage(ru, RoomNo(room),
                                          Sub(RoomCapacity(room), w.seatsLeft))
                            ELSE ru)

allocateGreedyLookahead ==
    LookaheadRooms(1, RoomsByCapacity(roomBlocks), NormalizedSections(sections),
                   <<>>, NoUsage)

allocationResult ==
    IF algorithm = 1 THEN allocateSimpleGreedy
    ELSE IF algorithm = 2 THEN allocateGreedyMinChunk
    ELSE IF algorithm = 3 THEN allocateGreedyLookahead
    ELSE allocateBestFitFFD

(***************************************************************************)
(* C14 (determinism and run independence): whatever ran before, and with   *)
(* whatever inputs, a finished run holds exactly the record list and the   *)
(* roomUsage map that its strategy computes from the current sections,     *)
(* catalog and minChunk alone; two runs on the same inputs therefore       *)
(* return the same.                                                        *)
(***************************************************************************)
RunsAreIndependent ==
    Finished =>
        /\ result = allocationResult.result
        /\ roomUsage = allocationResult.roomUsage

SecondBestFitRun ==
    /\ pc = "returned"
    /\ algorithm = 4
    /\ CatalogComplete
    /\ maxBlockIdx = 0
    /\ Len(Placements(result)) >= 1
    /\ \E k \in 1..Len(allocation) : allocation[k].roomNo = orderedRoomBlocks[2][1]

(***************************************************************************)
(* C15 (first placement in Simple Greedy and Greedy with Min-Chunk).  As   *)
(* stated: with a valid group and a room, the first record of the run      *)
(* seats min(capacity, size) of the largest group in the largest room,     *)
(* for every minChunk.  As the code runs it: so it is, also for a chunk    *)
(* below minChunk, unless the largest room is smaller than minChunk and    *)
(* the group larger than minChunk; then every room is skipped and the      *)
(* first record is the error record of the whole group.                    *)
(***************************************************************************)
LargestGroup == NormalizedSections(sections)[1]

LargestRoom == RoomsByCapacity(roomBlocks)[1]

FirstRunDone ==
    /\ Finished
    /\ algorithm \in {1, 2}
    /\ ValidGroups # {}

FirstRecordSeatsLargestGroup ==
    /\ ~IsError(result[1])
    /\ result[1].branch = LargestGroup.branch
    /\ result[1].section = LargestGroup.section
    /\ result[1].roomNo = LargestRoom.no
    /\ result[1].students = MathMin(LargestRoom.capacity, LargestGroup.students)
    /\ result[1].startSeat = 1

ScanSkips(j) ==
    IF algorithm = 1
    THEN SimpleGreedySkips(allRooms[j], roomUsage, remaining, allRooms)
    ELSE GreedyMinChunkSkips(allRooms[j], roomUsage, remaining, allRooms)

\* C16: no occupied room with spare capacity is skipped by the scan of a group with remaining > 0.
ToppingOffNeverSkipped ==
    (pc = "run" /\ algorithm \in {1, 2} /\ GT(remaining, 0)) =>
        \A j \in ri..Len(allRooms) :
            (\A i \in ri..j : ScanSkips(i)) =>
                ~(/\ RoomUsed(roomUsage, RoomNo(allRooms[j])) > 0
                  /\ GT(Available(allRooms[j], roomUsage), 0))

(***************************************************************************)
(* C17 (Best-Fit block ordering): the record the next step places goes to  *)
(* a room whose block index is at most maxBlockIdx; and a block after the  *)
(* first has a room in use only when every room of every earlier block is  *)
(* in use.                                                                 *)
(***************************************************************************)
BestFitState ==
    [result |-> result, roomUsage |-> roomUsage, si |-> si, ri |-> ri,
     remaining |-> remaining, maxBlockIdx |-> maxBlockIdx]

NextBestFitRecords ==
    LET after == BestFitFFDStep(BestFitState, allRooms, sectionLeft).result
    IN  Placements(SubSeq(after, Len(result) + 1, Len(after)))

BlockInUse(b) ==
    \E k \in 1..Len(orderedRoomBlocks[b]) : RoomUsed(roomUsage, orderedRoomBlocks[b][k]) > 0

BlockAllInUse(b) ==
    \A k \in 1..Len(orderedRoomBlocks[b]) : RoomUsed(roomUsage, orderedRoomBlocks[b][k]) > 0

\* C17: Best-Fit places only in unlocked blocks, and uses a block only after all earlier blocks' rooms are in use.
BlockOrdering ==
    algorithm = 4 =>
        /\ pc = "run" =>
              \A k \in 1..Len(NextBestFitRecords) :
                  LE(roomToBlockIdx(NextBestFitRecords[k].roomNo), maxBlockIdx)
        /\ \A b \in 2..Len(orderedRoomBlocks) :
              BlockInUse(b) => \A a \in 1..(b - 1) : BlockAllInUse(a)

(***************************************************************************)
(* C18 (Best-Fit gives up only when neither pass can place): when the      *)
(* next iteration ends the group with an error record, the first-fit pass  *)
(* has no room to place in: every room is locked, full or rejected by the  *)
(* min-chunk guard.                                                        *)
(***************************************************************************)
NextBestFitGivesUp ==
    LET after == BestFitFFDStep(BestFitState, allRooms, sectionLeft).result
    IN  /\ Len(after) = Len(result) + 1
        /\ IsError(after[Len(after)])

FirstFitRooms ==
    {j \in 1..Len(allRooms) :
        ~FirstFitSkips(allRooms[j], roomUsage, remaining, allRooms, maxBlockIdx)}

\* C18: Best-Fit emits an error record only when the first-fit pass finds no room either.
GivesUpOnlyWhenNothingFits ==
    (pc = "run" /\ algorithm = 4 /\ NextBestFitGivesUp) => FirstFitRooms = {}

(***************************************************************************)
(* C19 (Lookahead stop condition): when the filling of a room ends in a    *)
(* `break`, with seats left and groups in the pool, no group of the pool   *)
(* passes the guard of its placement in this room: the whole-group guard   *)
(* if it fits, the split guards if it does not.                            *)
(***************************************************************************)
Placeable(s) ==
    IF LE(s.students, seatsLeft)
    THEN ~WholeBreaks(s, allRooms[ri], seatsLeft, allRooms, roomUsage)
    ELSE ~SplitBreaks(s, allRooms[ri], seatsLeft, allRooms, roomUsage)

RoomAbandoned ==
    /\ pc = "fill"
    /\ algorithm = 3
    /\ LoopRuns
    /\ Iteration.left

\* C19: Lookahead leaves a room with seats left only when no group of the pool can be placed in it.
StopsOnlyWhenNothingPlaceable ==
    RoomAbandoned => \A k \in 1..Len(sectionLeft) : ~Placeable(sectionLeft[k])

(***************************************************************************)
(* C20 (Lookahead guards the perfect-fit path): when the perfect-fit       *)
(* search places a group smaller than minChunk in the room it enters, no   *)
(* other room has occupants.                                               *)
(***************************************************************************)
PerfectFitNext ==
    /\ pc = "room"
    /\ algorithm = 3
    /\ ri <= Len(allRooms)
    /\ PerfectIdx(sectionLeft, RoomCapacity(allRooms[ri])) # 0

\* C20: the perfect-fit path does not put a group below minChunk into an empty room while another room is occupied.
PerfectFitGuarded ==
    (PerfectFitNext /\ LT(RoomCapacity(allRooms[ri]), minChunk)) =>
        ~AnyRoomHasStudents(allRooms, roomUsage)

(***************************************************************************)
(* C21 (termination): every run ends, on any catalog (capacities that are  *)
(* zero, negative or not a number included), and stores                    *)
(* the result of its strategy; an iteration of Lookahead's                 *)
(* `while (seatsLeft > 0 && sectionLeft.length > 0)` or of Best-Fit's      *)
(* `while (remaining > 0)` that does not leave the loop places at least    *)
(* one seat and lowers seatsLeft /                                         *)
(* remaining.  allocateSeats runs to completion once called (one           *)
(* synchronous call on the event loop), which is the weak fairness of      *)
(* Next.                                                                   *)
(***************************************************************************)
InitAnyCatalog ==
    /\ \/ InitBounded
       \/ InitGreedyScenario
       \/ InitOverflowScenario
       \/ InitSmallChunkScenario
       \/ InitLeftoverScenario
       \/ OddInputs
    /\ InitRun

\* The states in which allocateSeats has a next step, by the guards of the actions.
StepEnabled ==
    \/ pc = "idle"
    \/ pc = "run" /\ algorithm \in {1, 2, 4}
    \/ pc \in {"room", "fill"} /\ algorithm = 3
    \/ pc = "returned"

\* WF_vars(Next), with ENABLED <<Next>>_vars written as StepEnabled.
RunsToCompletion == []<>(~StepEnabled) \/ []<><<Next>>_vars

SpecTerminating == InitAnyCatalog /\ [][Next]_vars /\ RunsToCompletion

RunEnded == pc = "alerted" \/ (pc = "done" /\ allocation = result)

LookaheadLoopContinues == pc = "fill" /\ pc' = "fill"

BestFitLoopContinues == algorithm = 4 /\ pc = "run" /\ pc' = "run" /\ si' = si

LoopIterationPlaces ==
    /\ LookaheadLoopContinues =>
          /\ LT(seatsLeft', seatsLeft)
          /\ GE(seatsLeft', 0)
          /\ Len(allocationsForRoom') = Len(allocationsForRoom) + 1
          /\ GE(allocationsForRoom'[Len(allocationsForRoom')].students, 1)
    /\ BestFitLoopContinues =>
          /\ LT(remaining', remaining)
          /\ GT(remaining', 0)
          /\ Len(result') = Len(result) + 1
          /\ GE(result'[Len(result')].students, 1)

\* C21: every run terminates with a stored result, and every loop iteration that stays in its loop places at least one seat.
EveryRunTerminates == <>RunEnded /\ [][LoopIterationPlaces]_vars

SplitAcrossRoomsByLoops ==
    /\ pc = "done"
    /\ allocation = result
    /\ algorithm \in {3, 4}
    /\ CatalogComplete
    /\ \E i, j \in 1..Len(allocation) :
          /\ i # j
          /\ ~IsError(allocation[i]) /\ ~IsError(allocation[j])
          /\ allocation[i].branch = allocation[j].branch
          /\ allocation[i].roomNo # allocation[j].roomNo
          /\ GE(allocation[i].students, 1) /\ GE(allocation[j].students, 1)

(***************************************************************************)
(* C22 (work conservation without a threshold): with minChunk = 1, every   *)
(* capacity positive and, for Best-Fit, every room of the fixed ordering   *)
(* in the catalog, a finished run holds an error record only when every    *)
(* room of the catalog is full; hence none when the catalog has seats for  *)
(* all valid groups.                                                       *)
(***************************************************************************)
NoThreshold ==
    /\ Finished
    /\ minChunk = 1
    /\ \A room \in CatalogRooms : GT(room.capacity, 0)
    /\ algorithm = 4 => CatalogComplete

RoomFull(room) == StrictEq(RoomUsed(roomUsage, room.no), room.capacity)

CatalogCapacity ==
    LET rooms == FlatRooms(roomBlocks)
    IN  SumStudents([i \in 1..Len(rooms) |-> [students |-> rooms[i].capacity]])

ValidDemand == SumStudents(SelectSeq(sections, IsValidSection))

EligibleCapacity ==
    SumStudents([i \in 1..Len(allRooms) |-> [students |-> RoomCapacity(allRooms[i])]])

\* C22 as stated: without a threshold an error record appears only when every room of the catalog is full, and never when the catalog has seats for all valid groups.
ErrorsOnlyWhenCatalogFull ==
    (NoThreshold /\ Errors(result) # <<>>) =>
        /\ \A room \in CatalogRooms : RoomFull(room)
        /\ CatalogCapacity < ValidDemand

\* C22: without a threshold an error record appears only when every room the strategy iterates over (for Best-Fit the rooms of the fixed ordering) is full, and never when these rooms have seats for all valid groups.
ErrorsOnlyWhenEligibleRoomsFull ==
    (NoThreshold /\ Errors(result) # <<>>) =>
        /\ \A i \in 1..Len(allRooms) : RoomFull(allRooms[i])
        /\ EligibleCapacity < ValidDemand

UnlistedRoomLeftEmpty ==
    /\ NoThreshold
    /\ pc = "done"
    /\ algorithm = 4
    /\ Errors(allocation) # <<>>
    /\ \A i \in 1..Len(allRooms) : RoomFull(allRooms[i])
    /\ \E room \in CatalogRooms : RoomUsed(roomUsage, room.no) = 0

====
